---- MODULE Spec2Model ----
(***************************************************************************)
(* Call-session coordination of src/server/server.py: the registry         *)
(* active_calls, the broadcast set dispatcher_connections, the vitals      *)
(* buffer pending_vitals, the four websocket handlers, cleanup_call and    *)
(* the background task gemini_session_task.                                *)
(*                                                                         *)
(* The server runs on one asyncio event loop: the code between two awaits  *)
(* is atomic, and every await is a point where other coroutines may run.   *)
(* Each action below is one such atomic block of one coroutine.            *)
(*                                                                         *)
(* JSON objects are functions from keys to strings.  Session dicts and     *)
(* tasks are heap objects: calls and tasks are the heaps, and a reference  *)
(* is an index into them (0 is None).  A reference keeps naming the same   *)
(* object after the registry has dropped it, as a Python reference does.   *)
(***************************************************************************)
EXTENDS Integers, Sequences, FiniteSets, TLC

\* ---------------------------------------------------------------- bounds
\* Messages a client sends on one connection.
MaxMsgs == 2
\* Session dicts ever created (size of the heap).
MaxSessions == 2
\* Capacity of the media queue.  The source uses 500 (server.py:236); the
\* model scales it down so that a full queue is reachable.
QueueMaxSize == 2

\* ------------------------------------------------------------ connections
SignalConns == {"s1", "s2"}
DashConns   == {"d1", "d2"}
VitalsConns == {"v1"}
AudioConns  == {"a1"}
Conns       == SignalConns \cup DashConns \cup VitalsConns \cup AudioConns

CallIds   == {"X", "Y"}
Locations == {"L1", "L2"}
NoneWs    == "None"

\* ------------------------------------------------------------------ JSON
EmptyDict == [k \in {} |-> ""]

\* dict.get(key, default)
Get(d, k, default) == IF k \in DOMAIN d THEN d[k] ELSE default

\* {**a, **b}: the keys of b override those of a
Merge(a, b) == [k \in DOMAIN a \cup DOMAIN b |-> IF k \in DOMAIN b THEN b[k] ELSE a[k]]

\* Optional[dict]: <<>> is None, <<d>> is the dict d
NoneDict == << >>
Some(d)  == << d >>
\* Python truthiness of an Optional[dict]: None and {} are falsy
Truthy(o) == o # NoneDict /\ DOMAIN o[1] # {}

VARIABLES
    active_calls,            \* call id -> reference to its session dict (0: absent)
    calls,                   \* heap of session dicts
    tasks,                   \* heap of gemini_session_task tasks
    pending_vitals,          \* call id -> Optional[dict]
    dispatcher_connections,  \* set of dashboard websockets
    query,                   \* connection -> its query string (call_id, role)
    pc,                      \* connection -> where its handler is
    closed,                  \* connection -> ws.closed
    budget,                  \* connection -> messages its client may still send
    data,                    \* connection -> the handler's last decoded message
    ref,                     \* connection -> the handler's local `call` (0: none)
    todo,                    \* signal connection -> dashboards still to notify
    item,                    \* audio connection -> the item of its pending put
    outbox,                  \* connection -> what the server has sent on it
    api_key,                 \* whether os.environ holds GEMINI_API_KEY
    now                      \* the clock read by time.time(): it has advanced by the next read

vars == << active_calls, calls, tasks, pending_vitals, dispatcher_connections,
           query, pc, closed, budget, data, ref, todo, item, outbox, api_key, now >>

\* active_calls.get(call_id)
ActiveGet(cid) == IF cid \in CallIds THEN active_calls[cid] ELSE 0

\* ws.send_json / ws.send_str on connection ch.  sid (the session the message
\* is about) and src (who sent it) are bookkeeping of the model.
\* (mutant: the newest message overtakes the ones already sent)
Sent_Front(o, ch, body, sid, src) ==
    [o EXCEPT ![ch] = << [body |-> body, sid |-> sid, src |-> src] >> \o @]

Sent(o, ch, body, sid, src) ==
    [o EXCEPT ![ch] = Append(@, [body |-> body, sid |-> sid, src |-> src])]

\* (mutant: no websocket is ever found open)
Open_Never(ws) == FALSE

Open(ws) == ws # NoneWs /\ ~closed[ws]

Sentinel == [type |-> "sentinel", data |-> ""]

TaskRunning(t) == t # 0 /\ tasks[t].pc # "done"

QueueOf(s) == calls[s].audio_queue
\* asyncio.Queue.full()
\* (mutant: put never waits)
Full_Never(s) == FALSE

\* Queue.full(): qsize() >= maxsize
Full(s) == Len(QueueOf(s)) >= QueueMaxSize

\* Where a handler goes on when the call it made returns: back to its receive
\* loop, or, after the loop has ended (the websocket is closed), to its end.
Ret(ch) == IF closed[ch] THEN "done" ELSE "recv"

\* ------------------------------------------------------------ cleanup_call
EndedMsg(cid) == [type |-> "call_ended", call_id |-> cid, reason |-> "ended"]

\* active_calls.pop(call_id, None)
Popped(cid) == ActiveGet(cid)

\* (mutant: the pop leaves the session in the registry)
AfterPop_Kept(cid) == active_calls

\* the registry after the pop
AfterPop(cid) == [active_calls EXCEPT ![cid] = 0]

\* (mutant: cleanup stops the task without looking at it)
MustStopTask_Always(s) == TRUE

\* `if task and not task.done()`
MustStopTask(s) == TaskRunning(calls[s].gemini_task)

\* "Notify caller": the last block of cleanup_call
NotifyCaller(ch, s, o) ==
    LET cws == calls[s].caller_ws IN
    /\ outbox' = IF Open(cws) THEN Sent(o, cws, EndedMsg(calls[s].call_id), s, ch) ELSE o
    /\ pc' = [pc EXCEPT ![ch] = Ret(ch)]
    /\ ref' = [ref EXCEPT ![ch] = 0]

\* "Notify dashboard", and on to "Notify caller" when nothing is sent
NotifyDashboard(ch, s) ==
    LET dws == calls[s].dashboard_ws IN
    IF Open(dws)
    THEN /\ outbox' = Sent(outbox, dws, EndedMsg(calls[s].call_id), s, ch)
         /\ pc' = [pc EXCEPT ![ch] = "cl_caller"]
         /\ ref' = [ref EXCEPT ![ch] = s]
    ELSE NotifyCaller(ch, s, outbox)

\* queue.put(None) on a queue with room, then task.cancel(): no await between
PutSentinelAndCancel(ch, s) ==
    /\ calls' = [calls EXCEPT ![s].audio_queue = Append(@, Sentinel)]
    /\ tasks' = [tasks EXCEPT ![calls[s].gemini_task].cancel = (@ \/ TaskRunning(calls[s].gemini_task))]
    /\ pc' = [pc EXCEPT ![ch] = "cl_wait"]
    /\ ref' = [ref EXCEPT ![ch] = s]
    /\ UNCHANGED outbox

\* cleanup_call(call_id), from its first line to its first await or its return
CleanupStart(ch, cid) ==
    LET s == Popped(cid) IN
    IF s = 0
    THEN /\ pc' = [pc EXCEPT ![ch] = Ret(ch)]
         /\ UNCHANGED << active_calls, calls, tasks, ref, outbox >>
    ELSE /\ active_calls' = AfterPop(cid)
         /\ IF MustStopTask(s)
            THEN IF Full(s)
                 THEN /\ pc' = [pc EXCEPT ![ch] = "cl_put"]
                      /\ ref' = [ref EXCEPT ![ch] = s]
                      /\ UNCHANGED << calls, tasks, outbox >>
                 ELSE PutSentinelAndCancel(ch, s)
            ELSE NotifyDashboard(ch, s) /\ UNCHANGED << calls, tasks >>

\* the put of the sentinel resumes once the queue has room
CleanupPut(ch) ==
    /\ pc[ch] = "cl_put"
    /\ ~Full(ref[ch])
    /\ PutSentinelAndCancel(ch, ref[ch])
    /\ UNCHANGED << active_calls, pending_vitals, dispatcher_connections, query,
                    closed, budget, data, todo, item, api_key, now >>

\* (mutant: cleanup does not wait for the task)
AwaitReturns_AtOnce(t) == TRUE

\* `await task` returns once the task is done
AwaitReturns(t) == ~TaskRunning(t)

\* cleanup_call goes on after `await task`
CleanupWait(ch) ==
    /\ pc[ch] = "cl_wait"
    /\ AwaitReturns(calls[ref[ch]].gemini_task)
    /\ NotifyDashboard(ch, ref[ch])
    /\ UNCHANGED << active_calls, calls, tasks, pending_vitals, dispatcher_connections,
                    query, closed, budget, data, todo, item, api_key, now >>

\* the send to the dashboard has returned
CleanupCaller(ch) ==
    /\ pc[ch] = "cl_caller"
    /\ NotifyCaller(ch, ref[ch], outbox)
    /\ UNCHANGED << active_calls, calls, tasks, pending_vitals, dispatcher_connections,
                    query, closed, budget, data, todo, item, api_key, now >>

\* ------------------------------------------------------------ handle_signal
SignalMsgs ==
    {[type |-> "call_initiated", location |-> l] : l \in Locations}
    \cup {[type |-> "call_initiated"], [type |-> "call_ended"], [type |-> "offer", sdp |-> "o1"]}

\* (mutant: the guard is missing)
IsDuplicate_Never(cid) == FALSE

\* `if call_id in active_calls`: the guard against a duplicate call_id
IsDuplicate(cid) == ActiveGet(cid) # 0

\* (mutant: the location is read under a key the message does not have)
NewCall_NoLocation(ch, cid, msg) ==
    [ call_id       |-> cid,
      caller_ws     |-> ch,
      dispatcher_ws |-> NoneWs,
      dashboard_ws  |-> NoneWs,
      audio_queue   |-> << >>,
      gemini_task   |-> 0,
      location      |-> Get(msg, "loc", "{}"),
      started_at    |-> now,
      last_vitals   |-> NoneDict,
      buffered      |-> NoneDict ]

\* the session dict built by call_initiated
\* (mutant: the session is created with a task handle)
NewCall_Eager(ch, cid, msg) ==
    [ call_id       |-> cid,
      caller_ws     |-> ch,
      dispatcher_ws |-> NoneWs,
      dashboard_ws  |-> NoneWs,
      audio_queue   |-> << >>,
      gemini_task   |-> 1,
      location      |-> Get(msg, "location", "{}"),
      started_at    |-> now,
      last_vitals   |-> NoneDict,
      buffered      |-> NoneDict ]

NewCall(ch, cid, msg) ==
    [ call_id       |-> cid,
      caller_ws     |-> ch,
      dispatcher_ws |-> NoneWs,
      dashboard_ws  |-> NoneWs,
      audio_queue   |-> << >>,
      gemini_task   |-> 0,
      location      |-> Get(msg, "location", "{}"),
      started_at    |-> now,
      last_vitals   |-> NoneDict,
      buffered      |-> NoneDict ]

\* "Replay any vitals that arrived before call was registered"
\* (the field buffered keeps the local `buffered` of that block: bookkeeping)
WithBuffered(call, buffered) ==
    IF Truthy(buffered) THEN [call EXCEPT !.last_vitals = buffered, !.buffered = buffered]
    ELSE call

IncomingMsg(cid, msg) ==
    [type |-> "incoming_call", call_id |-> cid, location |-> Get(msg, "location", "{}")]

\* (mutant: the loop does not test dash_ws.closed)
StillOpen_All(ds) == ds

\* The dashboards the loop `for dash_ws in dispatcher_connections.copy()` still
\* sends to: a closed websocket stays closed, so the closed ones are skipped
\* whenever the loop reaches them.
StillOpen(ds) == {d \in ds : ~closed[d]}

\* The loop over the copied set, from where it stands to its next await (the
\* send to one dashboard, in the set's iteration order) or to its end.
Broadcast(ch, ds, sid, cid, msg) ==
    IF StillOpen(ds) = {}
    THEN /\ pc' = [pc EXCEPT ![ch] = "recv"]
         /\ todo' = [todo EXCEPT ![ch] = {}]
         /\ UNCHANGED outbox
    ELSE \E d \in StillOpen(ds) :
         /\ outbox' = Sent(outbox, d, IncomingMsg(cid, msg), sid, ch)
         /\ todo' = [todo EXCEPT ![ch] = StillOpen(ds) \ {d}]
         /\ pc' = [pc EXCEPT ![ch] = "bcast"]

\* (mutant: the roles are swapped)
ForwardTarget_Swapped(role, call) ==
    IF role = "caller" THEN call.caller_ws ELSE call.dashboard_ws

\* the target of a forwarded signaling message
ForwardTarget(role, call) ==
    IF role = "caller" THEN call.dashboard_ws ELSE call.caller_ws

\* one text message of the receive loop, to the next await
SignalRecv(ch, msg) ==
    LET cid == query[ch].call_id IN
    /\ pc[ch] = "recv"
    /\ budget[ch] > 0
    /\ budget' = [budget EXCEPT ![ch] = @ - 1]
    /\ data' = [data EXCEPT ![ch] = msg]
    /\ UNCHANGED << dispatcher_connections, query, closed, item >>
    /\ CASE msg.type = "call_initiated" ->
              IF IsDuplicate(cid)
              THEN UNCHANGED << active_calls, calls, tasks, pending_vitals, pc, ref,
                                todo, outbox, api_key, now >>
              ELSE /\ Len(calls) < MaxSessions
                   /\ calls' = Append(calls, WithBuffered(NewCall(ch, cid, msg), pending_vitals[cid]))
                   /\ active_calls' = [active_calls EXCEPT ![cid] = Len(calls) + 1]
                   /\ pending_vitals' = [pending_vitals EXCEPT ![cid] = NoneDict]
                   /\ now' = now + 1
                   /\ UNCHANGED api_key
                   /\ Broadcast(ch, dispatcher_connections, Len(calls) + 1, cid, msg)
                   /\ UNCHANGED << tasks, ref >>
         [] msg.type = "call_ended" ->
              /\ CleanupStart(ch, cid)
              /\ UNCHANGED << pending_vitals, todo, api_key, now >>
         [] OTHER ->
              LET s == ActiveGet(cid)
                  target == ForwardTarget(query[ch].role, calls[s])
              IN /\ outbox' = IF s # 0 /\ Open(target)
                              THEN Sent(outbox, target, msg, s, ch) ELSE outbox
                 /\ UNCHANGED << active_calls, calls, tasks, pending_vitals, pc, ref,
                                 todo, api_key, now >>

\* the session dict the handler of ch created last (bookkeeping for Sent)
LastCallOf(ch) ==
    LET mine == {s \in 1..Len(calls) : calls[s].caller_ws = ch}
    IN IF mine = {} THEN 0 ELSE CHOOSE s \in mine : \A r \in mine : r <= s

\* the send to one dashboard has returned: the loop goes on
SignalBroadcast(ch) ==
    /\ pc[ch] = "bcast"
    /\ Broadcast(ch, todo[ch], LastCallOf(ch), query[ch].call_id, data[ch])
    /\ UNCHANGED << active_calls, calls, tasks, pending_vitals, dispatcher_connections,
                    query, closed, budget, data, ref, item, api_key, now >>

\* the client closes the websocket: the receive loop sees the close frame and
\* ws.closed becomes true before the code after the loop runs
SignalClose(ch) ==
    /\ pc[ch] = "recv"
    /\ closed' = [closed EXCEPT ![ch] = TRUE]
    /\ pc' = [pc EXCEPT ![ch] = "closing"]
    /\ UNCHANGED << active_calls, calls, tasks, pending_vitals, dispatcher_connections,
                    query, budget, data, ref, todo, item, outbox, api_key, now >>

\* (mutant: a closing caller channel ends nothing)
EndsCallOnClose_Never(ch) == FALSE

\* `if role == "caller" and call_id in active_calls`
EndsCallOnClose(ch) ==
    query[ch].role = "caller" /\ ActiveGet(query[ch].call_id) # 0

\* the code after the receive loop
SignalFinish(ch) ==
    /\ pc[ch] = "closing"
    /\ IF EndsCallOnClose(ch)
       THEN CleanupStart(ch, query[ch].call_id)
       ELSE /\ pc' = [pc EXCEPT ![ch] = "done"]
            /\ UNCHANGED << active_calls, calls, tasks, ref, outbox >>
    /\ UNCHANGED << pending_vitals, dispatcher_connections, query, closed, budget,
                    data, todo, item, api_key, now >>

\* --------------------------------------------------------- handle_dashboard
DashMsgs ==
    {[type |-> t, call_id |-> c] : t \in {"dispatcher_joined", "call_ended", "answer"},
                                   c \in CallIds}

\* the dashboard websocket is added to the broadcast set on connect
DashConnect(d) ==
    /\ pc[d] = "idle"
    /\ dispatcher_connections' = dispatcher_connections \cup {d}
    /\ pc' = [pc EXCEPT ![d] = "recv"]
    /\ UNCHANGED << active_calls, calls, tasks, pending_vitals, query, closed, budget,
                    data, ref, todo, item, outbox, api_key, now >>

\* (mutant: the dashboard websocket is not stored)
BindDashboard_Forgotten(call, d) == call

\* `call["dashboard_ws"] = ws`
BindDashboard(call, d) == [call EXCEPT !.dashboard_ws = d]

\* (mutant: the task is started on every dispatcher_joined)
NeedsTask_Always(call) == TRUE

\* `if call["gemini_task"] is None`
NeedsTask(call) == call.gemini_task = 0

\* asyncio.create_task(gemini_session_task(call_id, call["audio_queue"], getter))
\* (taken and requests are history: the audio payloads the task has dequeued
\* and the chunks it has submitted, oldest first)
NewTask(cid, s) ==
    [ call_id          |-> cid,
      queue            |-> s,
      pc               |-> "new",
      cancel           |-> FALSE,
      audio_buffer     |-> << >>,
      latest_frame     |-> "",
      previous_summary |-> "",
      taken            |-> << >>,
      requests         |-> << >> ]

\* (mutant: the annotation overrides the reading's own fields)
VitalsMsg_Overwrites(cid, vitals) == Merge(vitals, [type |-> "vitals", call_id |-> cid])

VitalsMsg(cid, vitals) == Merge([type |-> "vitals", call_id |-> cid], vitals)

ReadyMsg(cid) == [type |-> "dispatcher_ready", call_id |-> cid]

\* "caller_ws = call.get('caller_ws') ...": the end of the dispatcher_joined branch
NotifyReady(d, s, cid, o) ==
    LET cws == calls[s].caller_ws IN
    /\ outbox' = IF Open(cws) THEN Sent(o, cws, ReadyMsg(cid), s, d) ELSE o
    /\ pc' = [pc EXCEPT ![d] = "recv"]
    /\ ref' = [ref EXCEPT ![d] = 0]

\* the dispatcher_joined branch, to its first await or its end
DispatcherJoined(d, cid) ==
    LET s == ActiveGet(cid) IN
    IF s = 0
    THEN UNCHANGED << calls, tasks, pc, ref, outbox >>
    ELSE LET start == NeedsTask(calls[s])
             bound == BindDashboard(calls[s], d)
         IN /\ tasks' = IF start THEN Append(tasks, NewTask(cid, s)) ELSE tasks
            /\ calls' = [calls EXCEPT ![s] =
                            IF start THEN [bound EXCEPT !.gemini_task = Len(tasks) + 1]
                            ELSE bound]
            /\ IF Truthy(calls[s].last_vitals)
               THEN /\ outbox' = Sent(outbox, d, VitalsMsg(cid, calls[s].last_vitals[1]), s, d)
                    /\ pc' = [pc EXCEPT ![d] = "dj_ready"]
                    /\ ref' = [ref EXCEPT ![d] = s]
               ELSE NotifyReady(d, s, cid, outbox)

\* one text message of the receive loop, to the next await
DashRecv(d, msg) ==
    LET cid == Get(msg, "call_id", "None") IN
    /\ pc[d] = "recv"
    /\ budget[d] > 0
    /\ budget' = [budget EXCEPT ![d] = @ - 1]
    /\ data' = [data EXCEPT ![d] = msg]
    /\ UNCHANGED << pending_vitals, dispatcher_connections, query, closed, todo, item, api_key, now >>
    /\ CASE msg.type = "dispatcher_joined" ->
              /\ DispatcherJoined(d, cid)
              /\ UNCHANGED active_calls
         [] msg.type = "call_ended" ->
              CleanupStart(d, cid)
         [] OTHER ->
              LET s == ActiveGet(cid) IN
              /\ outbox' = IF s # 0 /\ Open(calls[s].caller_ws)
                           THEN Sent(outbox, calls[s].caller_ws, msg, s, d) ELSE outbox
              /\ UNCHANGED << active_calls, calls, tasks, pc, ref >>

\* the replay of the cached vitals has been sent: dispatcher_ready follows
DashReady(d) ==
    /\ pc[d] = "dj_ready"
    /\ NotifyReady(d, ref[d], data[d].call_id, outbox)
    /\ UNCHANGED << active_calls, calls, tasks, pending_vitals, dispatcher_connections,
                    query, closed, budget, data, todo, item, api_key, now >>

\* a JSON text that parses to something other than an object (an array, a
\* number): it has no type
NonObject == [type |-> "None", json |-> "array"]

\* The handler takes such a text: `data.get("call_id")` raises AttributeError,
\* which nothing in the handler catches, so the handler ends there and the
\* discard after the loop does not run.  Whether the library then reports the
\* websocket as closed is not decided by this code.
DashError(d) ==
    /\ pc[d] = "recv"
    /\ budget[d] > 0
    /\ budget' = [budget EXCEPT ![d] = @ - 1]
    /\ data' = [data EXCEPT ![d] = NonObject]
    /\ pc' = [pc EXCEPT ![d] = "failed"]
    /\ \E c \in BOOLEAN : closed' = [closed EXCEPT ![d] = c]
    /\ UNCHANGED << active_calls, calls, tasks, pending_vitals, dispatcher_connections,
                    query, ref, todo, item, outbox, api_key, now >>

\* the dashboard closes its websocket
DashClose(d) ==
    /\ pc[d] = "recv"
    /\ closed' = [closed EXCEPT ![d] = TRUE]
    /\ pc' = [pc EXCEPT ![d] = "closing"]
    /\ UNCHANGED << active_calls, calls, tasks, pending_vitals, dispatcher_connections,
                    query, budget, data, ref, todo, item, outbox, api_key, now >>

\* the code after the receive loop: dispatcher_connections.discard(ws)
DashFinish(d) ==
    /\ pc[d] = "closing"
    /\ dispatcher_connections' = dispatcher_connections \ {d}
    /\ pc' = [pc EXCEPT ![d] = "done"]
    /\ UNCHANGED << active_calls, calls, tasks, pending_vitals, query, closed, budget,
                    data, ref, todo, item, outbox, api_key, now >>

\* ------------------------------------------------------------ handle_vitals
VitalsReadings ==
    { [hr |-> "118", breathing |-> "22"],
      [hr |-> "95"],
      [hr |-> "70", type |-> "spoof", call_id |-> "Y"],
      EmptyDict }

\* one text message of the receive loop (the await of the forward ends it)
VitalsRecv(v, vitals) ==
    LET cid == query[v].call_id
        s   == ActiveGet(cid)
    IN
    /\ pc[v] = "recv"
    /\ budget[v] > 0
    /\ budget' = [budget EXCEPT ![v] = @ - 1]
    /\ data' = [data EXCEPT ![v] = vitals]
    /\ IF s = 0
       THEN /\ pending_vitals' = [pending_vitals EXCEPT ![cid] = Some(vitals)]
            /\ UNCHANGED << calls, outbox >>
       ELSE /\ calls' = [calls EXCEPT ![s].last_vitals = Some(vitals)]
            /\ outbox' = IF Open(calls[s].dashboard_ws)
                         THEN Sent(outbox, calls[s].dashboard_ws, VitalsMsg(cid, vitals), s, v)
                         ELSE outbox
            /\ UNCHANGED pending_vitals
    /\ UNCHANGED << active_calls, tasks, dispatcher_connections, query, pc, closed, ref,
                    todo, item, api_key, now >>

\* ------------------------------------------------------------- handle_audio
\* what the media websocket receives: binary payloads, frame messages, other
\* JSON and text that is not JSON
AudioInputs ==
    { [kind |-> "binary", type |-> "",      data |-> "pcm1"],
      [kind |-> "binary", type |-> "",      data |-> "pcm2"],
      [kind |-> "text",   type |-> "frame", data |-> "jpg1"],
      [kind |-> "text",   type |-> "ping",  data |-> ""],
      [kind |-> "junk",   type |-> "",      data |-> ""] }

\* the items the handler enqueues for an input (none for anything else)
ItemsFor(m) ==
    IF m.kind = "binary" THEN << [type |-> "audio", data |-> m.data] >>
    ELSE IF m.kind = "text" /\ m.type = "frame" THEN << [type |-> "frame", data |-> m.data] >>
    ELSE << >>

\* one message of the receive loop, to the await of queue.put
AudioRecv(a, m) ==
    LET s == ActiveGet(query[a].call_id) IN
    /\ pc[a] = "recv"
    /\ budget[a] > 0
    /\ budget' = [budget EXCEPT ![a] = @ - 1]
    /\ data' = [data EXCEPT ![a] = m]
    /\ IF s = 0 \/ ItemsFor(m) = << >>
       THEN UNCHANGED << calls, pc, ref, item >>
       ELSE IF Full(s)
            THEN /\ pc' = [pc EXCEPT ![a] = "put_wait"]
                 /\ ref' = [ref EXCEPT ![a] = s]
                 /\ item' = [item EXCEPT ![a] = ItemsFor(m)]
                 /\ UNCHANGED calls
            ELSE /\ calls' = [calls EXCEPT ![s].audio_queue = Append(@, ItemsFor(m)[1])]
                 /\ UNCHANGED << pc, ref, item >>
    /\ UNCHANGED << active_calls, tasks, pending_vitals, dispatcher_connections, query,
                    closed, todo, outbox, api_key, now >>

\* a text {"type": "frame"} with no "data" key
FrameNoData == [kind |-> "text", type |-> "frame"]

\* The handler takes such a text for a call that has a session: `data["data"]`
\* raises KeyError, only JSONDecodeError is caught, so the handler ends there.
\* (With no session the loop has already gone on before the text is parsed.)
AudioError(a) ==
    /\ pc[a] = "recv"
    /\ budget[a] > 0
    /\ ActiveGet(query[a].call_id) # 0
    /\ budget' = [budget EXCEPT ![a] = @ - 1]
    /\ data' = [data EXCEPT ![a] = FrameNoData]
    /\ pc' = [pc EXCEPT ![a] = "failed"]
    /\ \E c \in BOOLEAN : closed' = [closed EXCEPT ![a] = c]
    /\ UNCHANGED << active_calls, calls, tasks, pending_vitals, dispatcher_connections,
                    query, ref, todo, item, outbox, api_key, now >>

\* a put that waited on a full queue resumes once the queue has room
AudioPut(a) ==
    /\ pc[a] = "put_wait"
    /\ ~Full(ref[a])
    /\ calls' = [calls EXCEPT ![ref[a]].audio_queue = Append(@, item[a][1])]
    /\ pc' = [pc EXCEPT ![a] = "recv"]
    /\ ref' = [ref EXCEPT ![a] = 0]
    /\ item' = [item EXCEPT ![a] = << >>]
    /\ UNCHANGED << active_calls, tasks, pending_vitals, dispatcher_connections, query,
                    closed, budget, data, todo, outbox, api_key, now >>

\* ------------------------------------------------------ gemini_session_task
Tasks == 1..Len(tasks)

\* dashboard_ws_getter: lambda cid: active_calls.get(cid, {}).get("dashboard_ws")
DashboardWsGetter(cid) ==
    IF ActiveGet(cid) = 0 THEN NoneWs ELSE calls[ActiveGet(cid)].dashboard_ws

\* what the inference call can come back with
Responses ==
    { [kind |-> "json",   summary |-> "sum1"],
      [kind |-> "json",   summary |-> ""],
      [kind |-> "nojson", summary |-> ""],
      [kind |-> "error",  summary |-> ""] }

\* (mutant: the placeholder carries no summary)
TriageMsg_NoSummary(cid, r, prev) ==
    [type |-> "triage_update", call_id |-> cid,
     severity |-> IF r.kind = "json" THEN "3" ELSE "0",
     situation_summary |-> IF r.kind = "json" THEN r.summary ELSE "",
     detected_keywords |-> IF r.kind = "json" THEN "kw" ELSE ""]

\* the triage_update for a parsed report, or the placeholder of the
\* `except Exception` branch
TriageMsg(cid, r, prev) ==
    IF r.kind = "json"
    THEN [type |-> "triage_update", call_id |-> cid, severity |-> "3",
          situation_summary |-> r.summary, detected_keywords |-> "kw"]
    ELSE [type |-> "triage_update", call_id |-> cid, severity |-> "0",
          situation_summary |-> "AI analysis error (Exception)", detected_keywords |-> ""]

\* (mutant: the cancellation is handled like an inference failure: the
\* placeholder goes out and the loop goes on)
TaskCancelled_AsFailure(t) ==
    LET cid == tasks[t].call_id
        dws == DashboardWsGetter(cid)
    IN
    /\ tasks[t].pc # "done"
    /\ tasks[t].cancel
    /\ tasks' = [tasks EXCEPT ![t].pc = "collect", ![t].cancel = FALSE]
    /\ outbox' = IF Open(dws)
                 THEN Sent(outbox, dws,
                           TriageMsg(cid, [kind |-> "error", summary |-> ""],
                                     tasks[t].previous_summary),
                           tasks[t].queue, "task")
                 ELSE outbox
    /\ UNCHANGED << active_calls, calls, pending_vitals, dispatcher_connections, query,
                    pc, closed, budget, data, ref, todo, item, api_key, now >>

\* CancelledError is raised in the task at the await where it stands
TaskCancelled(t) ==
    /\ tasks[t].pc # "done"
    /\ tasks[t].cancel
    /\ tasks' = [tasks EXCEPT ![t].pc = "done"]
    /\ UNCHANGED << active_calls, calls, pending_vitals, dispatcher_connections, query,
                    pc, closed, budget, data, ref, todo, item, outbox, api_key, now >>

\* The task runs for the first time.  genai.Client(api_key=os.environ[...]) is
\* outside the try: without the variable the KeyError ends the task.
TaskStart(t) ==
    /\ tasks[t].pc = "new"
    /\ ~tasks[t].cancel
    /\ tasks' = [tasks EXCEPT ![t].pc = IF api_key THEN "collect" ELSE "done"]
    /\ UNCHANGED << active_calls, calls, pending_vitals, dispatcher_connections, query,
                    pc, closed, budget, data, ref, todo, item, outbox, api_key, now >>

\* `item = await asyncio.wait_for(audio_queue.get(), ...)` returns an item
TaskGet(t) ==
    LET q  == QueueOf(tasks[t].queue)
        it == Head(q)
    IN
    /\ tasks[t].pc = "collect"
    /\ ~tasks[t].cancel
    /\ q # << >>
    /\ calls' = [calls EXCEPT ![tasks[t].queue].audio_queue = Tail(q)]
    /\ tasks' = [tasks EXCEPT ![t] =
                    IF it = Sentinel THEN [@ EXCEPT !.pc = "done"]
                    ELSE IF it.type = "audio"
                         THEN [@ EXCEPT !.audio_buffer = Append(@, it.data),
                                        !.taken = Append(@, it.data)]
                    ELSE IF it.type = "frame" THEN [@ EXCEPT !.latest_frame = it.data]
                    ELSE @]
    /\ UNCHANGED << active_calls, pending_vitals, dispatcher_connections, query, pc,
                    closed, budget, data, ref, todo, item, outbox, api_key, now >>

\* (mutant: only the newest payload is submitted)
Chunk_Newest(buf) == << buf[Len(buf)] >>

\* chunk = bytes(audio_buffer)
Chunk(buf) == buf

\* the collection window closes with audio in the buffer: the request is sent
\* (with an empty buffer the loop starts the next window: nothing changes)
TaskWindow(t) ==
    /\ tasks[t].pc = "collect"
    /\ ~tasks[t].cancel
    /\ tasks[t].audio_buffer # << >>
    /\ tasks' = [tasks EXCEPT ![t].pc = "infer",
                              ![t].requests = Append(@, Chunk(tasks[t].audio_buffer)),
                              ![t].audio_buffer = << >>]
    /\ UNCHANGED << active_calls, calls, pending_vitals, dispatcher_connections, query,
                    pc, closed, budget, data, ref, todo, item, outbox, api_key, now >>

\* generate_content returns or raises; the report or the placeholder is sent
TaskInfer(t, r) ==
    LET cid == tasks[t].call_id
        dws == DashboardWsGetter(cid)
    IN
    /\ tasks[t].pc = "infer"
    /\ ~tasks[t].cancel
    /\ tasks' = [tasks EXCEPT ![t].pc = "collect",
                              ![t].previous_summary =
                                  IF r.kind = "json" THEN r.summary ELSE @]
    /\ outbox' = IF r.kind # "nojson" /\ Open(dws)
                 THEN Sent(outbox, dws, TriageMsg(cid, r, tasks[t].previous_summary),
                           tasks[t].queue, "task")
                 ELSE outbox
    /\ UNCHANGED << active_calls, calls, pending_vitals, dispatcher_connections, query,
                    pc, closed, budget, data, ref, todo, item, api_key, now >>

\* The response is in and the dashboard the getter finds does not report
\* closed, but its connection is gone and send_json raises.  In the try block
\* the exception is caught by `except Exception`, whose own send_json to the
\* same websocket raises again, inside the handler; for an inference error the
\* placeholder send is the one that raises.  Either way the exception leaves
\* the loop, the outer try catches only CancelledError, and the task ends.
TaskPublishFails(t) ==
    /\ tasks[t].pc = "infer"
    /\ ~tasks[t].cancel
    /\ Open(DashboardWsGetter(tasks[t].call_id))
    /\ tasks' = [tasks EXCEPT ![t].pc = "done"]
    /\ UNCHANGED << active_calls, calls, pending_vitals, dispatcher_connections, query,
                    pc, closed, budget, data, ref, todo, item, outbox, api_key, now >>

\* ------------------------------------------------------------ the system
\* every signaling, vitals and media connection is for call X; s1 and s2 both
\* connect with role=caller
QueryAll == [ch \in Conns |-> [call_id |-> "X", role |-> "caller"]]

\* q: the query strings; b: the messages each client sends at most (a
\* connection with none to send and not in `on` never connects); key: whether
\* GEMINI_API_KEY is set
InitWith(q, b, on, key) ==
    /\ active_calls = [c \in CallIds |-> 0]
    /\ calls = << >>
    /\ tasks = << >>
    /\ pending_vitals = [c \in CallIds |-> NoneDict]
    /\ dispatcher_connections = {}
    /\ query = q
    /\ pc = [ch \in Conns |-> IF b[ch] = 0 /\ ch \notin on THEN "off"
                                ELSE IF ch \in DashConns THEN "idle" ELSE "recv"]
    /\ closed = [ch \in Conns |-> FALSE]
    /\ budget = b
    /\ data = [ch \in Conns |-> EmptyDict]
    /\ ref = [ch \in Conns |-> 0]
    /\ todo = [ch \in Conns |-> {}]
    /\ item = [ch \in Conns |-> << >>]
    /\ outbox = [ch \in Conns |-> << >>]
    /\ api_key \in key
    /\ now = 0

\* The whole server: every connection, every message.
Init == InitWith(QueryAll, [ch \in Conns |-> MaxMsgs], {}, BOOLEAN)

SignalStep ==
    \E ch \in SignalConns :
        \/ \E msg \in SignalMsgs : SignalRecv(ch, msg)
        \/ SignalBroadcast(ch)
        \/ SignalClose(ch)
        \/ SignalFinish(ch)

DashStep ==
    \E d \in DashConns :
        \/ DashConnect(d)
        \/ \E msg \in DashMsgs : DashRecv(d, msg)
        \/ DashReady(d)
        \/ DashError(d)
        \/ DashClose(d)
        \/ DashFinish(d)

CleanupStep ==
    \E ch \in SignalConns \cup DashConns :
        \/ CleanupPut(ch)
        \/ CleanupWait(ch)
        \/ CleanupCaller(ch)

VitalsStep == \E v \in VitalsConns : \E vitals \in VitalsReadings : VitalsRecv(v, vitals)

AudioStep ==
    \E a \in AudioConns :
        \/ \E m \in AudioInputs : AudioRecv(a, m)
        \/ AudioError(a)
        \/ AudioPut(a)

TaskStep ==
    \E t \in Tasks :
        \/ TaskStart(t)
        \/ TaskCancelled(t)
        \/ TaskGet(t)
        \/ TaskWindow(t)
        \/ \E r \in Responses : TaskInfer(t, r)
        \/ TaskPublishFails(t)

Next == SignalStep \/ DashStep \/ CleanupStep \/ VitalsStep \/ AudioStep \/ TaskStep

Spec == Init /\ [][Next]_vars

\* ------------------------------------------------- what the claims speak of
\* the messages of type ty about session s that ch has been sent
CountIn(o, ch, ty, s) ==
    Cardinality({i \in 1..Len(o[ch]) : o[ch][i].body.type = ty /\ o[ch][i].sid = s})

Count(ch, ty, s) == CountIn(outbox, ch, ty, s)

Sessions == 1..Len(calls)

\* a step in which the handler of ch takes a message of type ty from its client
Takes(ch, ty) == budget'[ch] = budget[ch] - 1 /\ data'[ch].type = ty

\* ========================================================= initiation
\* Two caller connections for call X (s1 sends up to MaxMsgs messages, s2
\* one), dashboard d1 that may join once and dashboard d2 that only listens.
InitiationMsgs ==
    {[type |-> "call_initiated", location |-> l] : l \in Locations}
    \cup {[type |-> "call_ended"]}

InitiationBudget ==
    [ch \in Conns |-> IF ch = "s1" THEN MaxMsgs ELSE IF ch \in {"s2", "d1"} THEN 1 ELSE 0]

InitInitiation == InitWith(QueryAll, InitiationBudget, {"d2"}, {TRUE})

NextInitiation ==
    \/ \E ch \in SignalConns :
          \/ \E msg \in InitiationMsgs : SignalRecv(ch, msg)
          \/ SignalBroadcast(ch)
          \/ SignalClose(ch)
          \/ SignalFinish(ch)
    \/ \E d \in DashConns :
          \/ DashConnect(d)
          \/ DashRecv(d, [type |-> "dispatcher_joined", call_id |-> "X"])
          \/ DashClose(d)
          \/ DashFinish(d)
    \/ \E ch \in SignalConns \cup DashConns : CleanupWait(ch) \/ CleanupCaller(ch)
    \/ \E t \in Tasks : TaskStart(t) \/ TaskCancelled(t)

SpecInitiation == InitInitiation /\ [][NextInitiation]_vars

\* C1: the registry holds at most one session per call id (an id in the
\* registry names a session of that id), and a call_initiated for an id that is
\* in the registry changes nothing: not the registry, not any session (its
\* location and started_at included), not the vitals buffer, and sends nothing.
C1_DuplicateIgnored ==
    /\ [](\A c \in CallIds : active_calls[c] # 0 =>
              active_calls[c] \in Sessions /\ calls[active_calls[c]].call_id = c)
    /\ [][\A ch \in SignalConns :
             Takes(ch, "call_initiated") /\ active_calls[query[ch].call_id] # 0
             => UNCHANGED << active_calls, calls, tasks, pending_vitals, outbox >>]_vars

\* only one session was ever created, and a connection that is not its caller
\* has sent a call_initiated with another location: it was ignored
C1_Witness ==
    /\ Len(calls) = 1
    /\ active_calls["X"] = 1
    /\ \E ch \in SignalConns :
          /\ ch # calls[1].caller_ws
          /\ Get(data[ch], "type", "") = "call_initiated"
          /\ data[ch].location # calls[1].location

\* C8: a call_initiated for an id that is not in the registry puts a fresh
\* session there: the supplied location, the sending channel as caller, no
\* dispatcher channel, no dashboard channel, no triage task, an empty queue.
C8_SessionCreated ==
    [][\A ch \in SignalConns :
          Takes(ch, "call_initiated") /\ active_calls[query[ch].call_id] = 0
          => LET s == active_calls'[query[ch].call_id] IN
             /\ s = Len(calls) + 1
             /\ calls'[s].call_id = query[ch].call_id
             /\ calls'[s].location = data'[ch].location
             /\ calls'[s].caller_ws = ch
             /\ calls'[s].dispatcher_ws = NoneWs
             /\ calls'[s].dashboard_ws = NoneWs
             /\ calls'[s].gemini_task = 0
             /\ calls'[s].audio_queue = << >>]_vars

\* a second session of X, just created, while the first one had a dispatcher
C8_Witness ==
    /\ Len(calls) = 2
    /\ active_calls["X"] = 2
    /\ calls[1].dashboard_ws # NoneWs
    /\ calls[1].gemini_task # 0
    /\ calls[2].dashboard_ws = NoneWs
    /\ calls[2].gemini_task = 0
    /\ data[calls[2].caller_ws].type = "call_initiated"
    /\ data[calls[2].caller_ws].location = calls[2].location

\* the handler of ch has just created a session
Creates(ch) == Takes(ch, "call_initiated") /\ active_calls[query[ch].call_id] = 0

\* the broadcast loop of ch has just left dashboard d behind
LeavesBehind(ch, d) == d \in todo[ch] /\ d \notin todo'[ch]

\* C9 as claimed: every dashboard in the broadcast set and open when the call
\* is initiated gets exactly one incoming_call for it.
C9_AllConnectedNotified ==
    [][\A ch \in SignalConns : \A d \in DashConns :
          /\ Creates(ch) /\ d \in dispatcher_connections /\ ~closed[d]
             => \/ CountIn(outbox', d, "incoming_call", Len(calls) + 1) = 1
                \/ d \in todo'[ch]
          /\ LeavesBehind(ch, d) => CountIn(outbox', d, "incoming_call", LastCallOf(ch)) = 1]_vars

\* C9 as amended: every dashboard in the broadcast set and open when the call
\* is initiated gets exactly one incoming_call for it if it is still open when
\* the loop reaches it, and none if it has closed by then; no dashboard gets
\* more than one per session, each carries the session's call id and
\* location, and a rejected duplicate call_initiated sends nothing.
C9_OpenOnesNotified ==
    /\ [](\A d \in DashConns : \A s \in Sessions :
             /\ Count(d, "incoming_call", s) <= 1
             /\ \A i \in 1..Len(outbox[d]) :
                   outbox[d][i].body.type = "incoming_call" /\ outbox[d][i].sid = s
                   => /\ outbox[d][i].body.call_id = calls[s].call_id
                      /\ outbox[d][i].body.location = calls[s].location)
    /\ [][\A ch \in SignalConns : \A d \in DashConns :
             /\ Creates(ch) /\ d \in dispatcher_connections /\ ~closed[d]
                => \/ CountIn(outbox', d, "incoming_call", Len(calls) + 1) = 1
                   \/ d \in todo'[ch] /\ CountIn(outbox', d, "incoming_call", Len(calls) + 1) = 0
             /\ LeavesBehind(ch, d)
                => \/ ~closed[d] /\ CountIn(outbox', d, "incoming_call", LastCallOf(ch)) = 1
                   \/ closed[d] /\ CountIn(outbox', d, "incoming_call", LastCallOf(ch)) = 0
             /\ closed[d] => outbox'[d] = outbox[d]
             /\ Takes(ch, "call_initiated") /\ active_calls[query[ch].call_id] # 0
                => outbox' = outbox]_vars

\* both dashboards have got the incoming_call of one session, and the other
\* caller connection has had its call_initiated rejected
C9_Witness ==
    \E s \in Sessions :
        /\ \A d \in DashConns : Count(d, "incoming_call", s) = 1
        /\ Len(calls) = 1
        /\ \E ch \in SignalConns :
              ch # calls[s].caller_ws /\ Get(data[ch], "type", "") = "call_initiated"

\* ============================================================== joining
\* Caller s1 of call X, dashboards d1 (up to MaxMsgs messages) and d2 (one),
\* the vitals connection v1 (one reading), with and without GEMINI_API_KEY.
JoinSignalMsgs == {[type |-> "call_initiated", location |-> "L1"], [type |-> "call_ended"]}

JoinReadings ==
    { [hr |-> "118", breathing |-> "22"],
      [hr |-> "70", type |-> "spoof", call_id |-> "Y"],
      EmptyDict }

JoinBudget ==
    [ch \in Conns |-> IF ch \in {"s1", "d1"} THEN MaxMsgs
                      ELSE IF ch \in {"d2", "v1"} THEN 1 ELSE 0]

InitJoin == InitWith(QueryAll, JoinBudget, {}, BOOLEAN)

NextJoin ==
    \/ \E msg \in JoinSignalMsgs : SignalRecv("s1", msg)
    \/ SignalBroadcast("s1")
    \/ SignalClose("s1")
    \/ SignalFinish("s1")
    \/ \E d \in DashConns :
          \/ DashConnect(d)
          \/ DashRecv(d, [type |-> "dispatcher_joined", call_id |-> "X"])
          \/ DashReady(d)
    \/ \E ch \in SignalConns \cup DashConns : CleanupWait(ch) \/ CleanupCaller(ch)
    \/ \E vitals \in JoinReadings : VitalsRecv("v1", vitals)
    \/ \E t \in Tasks : TaskStart(t) \/ TaskCancelled(t)

SpecJoin == InitJoin /\ [][NextJoin]_vars

\* the handler of dashboard d takes a dispatcher_joined for a call that is in
\* the registry
JoinsExisting(d) ==
    Takes(d, "dispatcher_joined") /\ ActiveGet(Get(data'[d], "call_id", "None")) # 0

\* C2 as claimed: the dashboard channel of a session, once bound, is never
\* reassigned.
C2_FirstJoinWins ==
    [][\A s \in Sessions :
          calls[s].dashboard_ws # NoneWs => calls'[s].dashboard_ws = calls[s].dashboard_ws]_vars

TasksOf(s) == {t \in Tasks : tasks[t].queue = s}

\* C3: a session that no dispatcher has joined has no task, a session that a
\* dispatcher has joined has exactly one, however many dispatcher_joined
\* messages it got and whether or not that task has finished; gemini_task is
\* that task.
C3_OneTaskPerSession ==
    \A s \in Sessions :
        /\ Cardinality(TasksOf(s)) = IF calls[s].dashboard_ws = NoneWs THEN 0 ELSE 1
        /\ calls[s].gemini_task # 0 => TasksOf(s) = {calls[s].gemini_task}

\* a session still in the registry whose caller has been told twice that a
\* dispatcher is ready, and whose one task has already finished
C3_Witness ==
    \E s \in Sessions :
        /\ active_calls["X"] = s
        /\ Count(calls[s].caller_ws, "dispatcher_ready", s) >= 2
        /\ calls[s].gemini_task # 0
        /\ tasks[calls[s].gemini_task].pc = "done"

\* dispatcher_ready for session s, call cid, goes from d to the caller if open
ReadyDelivered(d, s, cid) ==
    LET cws == calls[s].caller_ws IN
    outbox'[cws] = IF closed[cws] THEN outbox[cws]
                   ELSE Append(outbox[cws], [body |-> [type |-> "dispatcher_ready", call_id |-> cid],
                                             sid |-> s, src |-> d])

\* C10: a dispatcher_joined for a call in the registry binds the session's
\* dashboard channel to the sender and leaves its task handle non-null; when
\* the branch ends (at once, or after the await of the vitals replay) the
\* caller channel, if open, is sent dispatcher_ready with that call id.
C10_DispatcherJoined ==
    [][\A d \in DashConns :
          /\ JoinsExisting(d)
             => LET cid == data'[d].call_id
                    s   == ActiveGet(cid)
                IN /\ calls'[s].dashboard_ws = d
                   /\ calls'[s].gemini_task # 0
                   /\ pc'[d] = "dj_ready" \/ ReadyDelivered(d, s, cid)
          /\ pc[d] = "dj_ready" /\ pc'[d] # "dj_ready"
             => ReadyDelivered(d, ref[d], data[d].call_id)]_vars

\* a joined session whose caller got dispatcher_ready after a vitals replay
C10_Witness ==
    \E s \in Sessions :
        /\ calls[s].dashboard_ws # NoneWs
        /\ calls[s].gemini_task # 0
        /\ Truthy(calls[s].last_vitals)
        /\ Count(calls[s].caller_ws, "dispatcher_ready", s) = 1

\* the replays (sent by a dashboard handler) of reading v of session s
Replays(s, v) ==
    {<<d, i>> \in DashConns \X (1..(2 * MaxMsgs + 2)) :
        /\ i <= Len(outbox[d])
        /\ outbox[d][i].src \in DashConns
        /\ outbox[d][i].sid = s
        /\ outbox[d][i].body = Merge([type |-> "vitals", call_id |-> calls[s].call_id], v)}

\* C6 as claimed: the reading cached before the session existed is delivered
\* to the dashboard exactly once, not again on a repeated dispatcher_joined.
C6_DeliveredOnce ==
    \A s \in Sessions :
        Truthy(calls[s].buffered) => Cardinality(Replays(s, calls[s].buffered[1])) <= 1

\* C6 as amended: a reading that arrives while its call id has no session is
\* cached; a non-empty cached reading becomes the last vitals of the session
\* created next for that id (and leaves the cache); every dispatcher_joined for
\* a session with non-empty last vitals sends them to the joining dashboard
\* with every field of the reading intact, a repeated one again.
C6_DeliveredOnEachJoin ==
    [][/\ \A v \in VitalsConns :
             budget'[v] = budget[v] - 1 /\ ActiveGet(query[v].call_id) = 0
             => pending_vitals'[query[v].call_id] = Some(data'[v])
       /\ \A ch \in SignalConns :
             Creates(ch) /\ Truthy(pending_vitals[query[ch].call_id])
             => /\ calls'[Len(calls) + 1].last_vitals = pending_vitals[query[ch].call_id]
                /\ pending_vitals'[query[ch].call_id] = NoneDict
       /\ \A d \in DashConns :
             JoinsExisting(d) /\ Truthy(calls[ActiveGet(data'[d].call_id)].last_vitals)
             => LET s == ActiveGet(data'[d].call_id)
                    v == calls[s].last_vitals[1]
                    m == outbox'[d][Len(outbox[d]) + 1]
                IN /\ Len(outbox'[d]) = Len(outbox[d]) + 1
                   /\ m.sid = s
                   /\ \A k \in DOMAIN v : k \in DOMAIN m.body /\ m.body[k] = v[k]
                   /\ {"type", "call_id"} \subseteq DOMAIN m.body]_vars

\* the reading buffered before the session existed, one with its own type and
\* call_id fields, has been replayed twice
C6_Witness ==
    \E s \in Sessions :
        /\ Truthy(calls[s].buffered)
        /\ "type" \in DOMAIN calls[s].buffered[1]
        /\ Cardinality(Replays(s, calls[s].buffered[1])) >= 2

\* =============================================================== ending
\* Caller s1 of call X, a second signaling connection s2 with the same query
\* (one message), dashboard d1; each may end the call, s1 and s2 also by closing.
EndingSignalMsgs == {[type |-> "call_initiated", location |-> "L1"], [type |-> "call_ended"]}

EndingDashMsgs ==
    {[type |-> "dispatcher_joined", call_id |-> "X"], [type |-> "call_ended", call_id |-> "X"]}

EndingBudget ==
    [ch \in Conns |-> IF ch \in {"s1", "d1"} THEN MaxMsgs ELSE IF ch = "s2" THEN 1 ELSE 0]

InitEnding == InitWith(QueryAll, EndingBudget, {}, {TRUE})

NextEnding ==
    \/ \E msg \in EndingSignalMsgs : SignalRecv("s1", msg)
    \/ SignalRecv("s2", [type |-> "call_ended"])
    \/ \E ch \in SignalConns :
          \/ SignalBroadcast(ch)
          \/ SignalClose(ch)
          \/ SignalFinish(ch)
    \/ DashConnect("d1")
    \/ \E msg \in EndingDashMsgs : DashRecv("d1", msg)
    \/ DashClose("d1")
    \/ DashFinish("d1")
    \/ \E ch \in SignalConns \cup DashConns : CleanupWait(ch) \/ CleanupCaller(ch)
    \/ \E t \in Tasks : TaskStart(t) \/ TaskCancelled(t)

SpecEnding == InitEnding /\ [][NextEnding]_vars

\* C4: cleanup of a call id that is not in the registry changes nothing and
\* sends nothing, so whatever cleanups are requested for a session (call_ended
\* from the caller, from the dashboard, a closing caller channel), in whatever
\* interleaving, every channel gets at most one call_ended for it.
C4_CleanupIdempotent ==
    /\ [](\A ch \in Conns : \A s \in Sessions : Count(ch, "call_ended", s) <= 1)
    /\ [][\A ch \in SignalConns \cup DashConns :
             LET cid == IF ch \in DashConns THEN Get(data'[ch], "call_id", "None")
                        ELSE query[ch].call_id
             IN (Takes(ch, "call_ended") \/ (pc[ch] = "closing" /\ pc'[ch] # "closing"))
                /\ ActiveGet(cid) = 0
                => UNCHANGED << active_calls, calls, tasks, pending_vitals, outbox >>]_vars

\* caller and dashboard have both asked to end the one session there was, both
\* cleanups have returned, and each channel holds one call_ended
C4_Witness ==
    /\ Len(calls) = 1
    /\ Get(data["s1"], "type", "") = "call_ended" /\ pc["s1"] = "recv"
    /\ Get(data["d1"], "type", "") = "call_ended" /\ pc["d1"] = "recv"
    /\ Count("s1", "call_ended", 1) = 1
    /\ Count("d1", "call_ended", 1) = 1

\* handler ch, its websocket closed, returns from the cleanup of session s,
\* which it created and which a dispatcher had joined
ClosedCallerEnds(ch, s) ==
    /\ closed[ch]
    /\ pc[ch] \in {"closing", "cl_wait", "cl_caller"}
    /\ pc'[ch] = "done"
    /\ s = IF pc[ch] = "closing" THEN ActiveGet(query[ch].call_id) ELSE ref[ch]
    /\ s # 0
    /\ calls[s].caller_ws = ch
    /\ calls[s].dashboard_ws # NoneWs
    /\ calls[s].gemini_task # 0

\* C5 as claimed: when the caller's channel closes on a joined session, the
\* call id leaves the registry and both the dashboard (here: still open) and
\* the caller channel get exactly one call_ended.
C5_BothNotified ==
    [][\A ch \in SignalConns : \A s \in Sessions :
          ClosedCallerEnds(ch, s) /\ ~closed[calls[s].dashboard_ws]
          => /\ active_calls'[calls[s].call_id] # s
             /\ CountIn(outbox', calls[s].dashboard_ws, "call_ended", s) = 1
             /\ CountIn(outbox', ch, "call_ended", s) = 1]_vars

\* C5 as amended: when the caller's channel closes on a joined session, the
\* call id leaves the registry at once; by the time the cleanup returns the
\* dashboard channel has exactly one call_ended if it is still open (never
\* more than one), and the caller channel, being closed, has none.
C5_DashboardNotified ==
    [][\A ch \in SignalConns : \A s \in Sessions :
          /\ ( /\ pc[ch] = "closing" /\ pc'[ch] # "closing"
               /\ s = ActiveGet(query[ch].call_id)
               /\ calls[s].caller_ws = ch
               /\ calls[s].gemini_task # 0 )
             => active_calls'[calls[s].call_id] = 0
          /\ ClosedCallerEnds(ch, s)
             => /\ active_calls'[calls[s].call_id] # s
                /\ CountIn(outbox', calls[s].dashboard_ws, "call_ended", s) <= 1
                /\ ~closed[calls[s].dashboard_ws]
                   => CountIn(outbox', calls[s].dashboard_ws, "call_ended", s) = 1
                /\ CountIn(outbox', ch, "call_ended", s) = 0]_vars

\* the caller channel of a joined session has closed and its cleanup has
\* returned: the open dashboard has the one call_ended, sent by that cleanup
C5_Witness ==
    \E s \in Sessions :
        /\ calls[s].caller_ws = "s1" /\ closed["s1"] /\ pc["s1"] = "done"
        /\ calls[s].dashboard_ws = "d1" /\ ~closed["d1"]
        /\ calls[s].gemini_task # 0
        /\ active_calls["X"] = 0
        /\ \E i \in 1..Len(outbox["d1"]) :
              outbox["d1"][i] = [body |-> [type |-> "call_ended", call_id |-> "X", reason |-> "ended"],
                                 sid |-> s, src |-> "s1"]
        /\ Count("s1", "call_ended", s) = 0

\* ================================================================ media
\* Caller s1 creates call X, dashboard d1 joins it and may end it, the media
\* connection a1 sends one payload more than the queue holds, the task consumes.
MediaInputs ==
    { [kind |-> "binary", type |-> "",      data |-> "pcm1"],
      [kind |-> "text",   type |-> "frame", data |-> "jpg1"],
      [kind |-> "text",   type |-> "ping",  data |-> ""] }

MediaResponses == {[kind |-> "json", summary |-> "sum1"], [kind |-> "error", summary |-> ""]}

MediaBudget ==
    [ch \in Conns |-> IF ch = "a1" THEN QueueMaxSize + 1
                      ELSE IF ch = "d1" THEN 2
                      ELSE IF ch = "s1" THEN 1 ELSE 0]

InitMedia == InitWith(QueryAll, MediaBudget, {}, {TRUE})

NextMedia ==
    \/ SignalRecv("s1", [type |-> "call_initiated", location |-> "L1"])
    \/ SignalBroadcast("s1")
    \/ DashConnect("d1")
    \/ DashRecv("d1", [type |-> "dispatcher_joined", call_id |-> "X"])
    \/ DashRecv("d1", [type |-> "call_ended", call_id |-> "X"])
    \/ CleanupPut("d1")
    \/ CleanupWait("d1")
    \/ CleanupCaller("d1")
    \/ \E m \in MediaInputs : AudioRecv("a1", m)
    \/ AudioPut("a1")
    \/ \E t \in Tasks :
          \/ TaskStart(t)
          \/ TaskGet(t)
          \/ TaskWindow(t)
          \/ \E r \in MediaResponses : TaskInfer(t, r)
          \/ TaskCancelled(t)

SpecMedia == InitMedia /\ [][NextMedia]_vars

\* C7: a session's queue never holds more than its capacity; a payload that
\* finds the queue below capacity is appended at once; one that finds it at
\* capacity is neither dropped nor refused: its producer waits with the item in
\* hand, and leaves the wait only by appending that item to a queue with room.
C7_Backpressure ==
    /\ [](\A s \in Sessions : Len(QueueOf(s)) <= QueueMaxSize)
    /\ [][\A a \in AudioConns :
             /\ ( /\ budget'[a] = budget[a] - 1
                  /\ ActiveGet(query[a].call_id) # 0
                  /\ data'[a].kind = "binary" \/ data'[a].type = "frame" )
                => LET s  == ActiveGet(query[a].call_id)
                       it == [type |-> IF data'[a].kind = "binary" THEN "audio" ELSE "frame",
                              data |-> data'[a].data]
                   IN IF Len(QueueOf(s)) < QueueMaxSize
                      THEN calls'[s].audio_queue = Append(QueueOf(s), it) /\ pc'[a] = "recv"
                      ELSE /\ calls'[s].audio_queue = QueueOf(s)
                           /\ pc'[a] = "put_wait" /\ ref'[a] = s /\ item'[a] = << it >>
             /\ pc[a] = "put_wait"
                => \/ pc'[a] = "put_wait" /\ ref'[a] = ref[a] /\ item'[a] = item[a]
                   \/ /\ pc'[a] = "recv"
                      /\ Len(QueueOf(ref[a])) < QueueMaxSize
                      /\ calls'[ref[a]].audio_queue = Append(QueueOf(ref[a]), item[a][1])]_vars

\* the producer waits on a queue that holds exactly its capacity
C7_Witness ==
    /\ pc["a1"] = "put_wait"
    /\ item["a1"] # << >>
    /\ Len(QueueOf(ref["a1"])) = QueueMaxSize

\* ------------------------------------------------------- vitals, live
\* the handler of vitals connection v takes a reading while its call id has
\* session s
VitalsFor(v, s) ==
    /\ budget'[v] = budget[v] - 1
    /\ s = ActiveGet(query[v].call_id)
    /\ s # 0

\* C11: a reading taken for a session that a dispatcher has joined becomes the
\* session's last vitals and, when the dashboard channel is open, is appended
\* to that channel's messages with every field of the reading unchanged.
C11_VitalsForwarded ==
    [][\A v \in VitalsConns : \A s \in Sessions :
          VitalsFor(v, s) /\ calls[s].dashboard_ws # NoneWs
          => LET dws == calls[s].dashboard_ws
                 m   == outbox'[dws][Len(outbox[dws]) + 1]
             IN /\ calls'[s].last_vitals = << data'[v] >>
                /\ IF closed[dws]
                   THEN outbox' = outbox
                   ELSE /\ Len(outbox'[dws]) = Len(outbox[dws]) + 1
                        /\ m.sid = s /\ m.src = v
                        /\ \A k \in DOMAIN data'[v] :
                              k \in DOMAIN m.body /\ m.body[k] = data'[v][k]]_vars

\* the dashboard of a joined session holds the reading {hr: 118, breathing: 22}
\* forwarded by the vitals handler, and it is the session's last vitals
C11_Witness ==
    \E s \in Sessions :
        /\ calls[s].dashboard_ws \in DashConns
        /\ calls[s].last_vitals = << [hr |-> "118", breathing |-> "22"] >>
        /\ \E i \in 1..Len(outbox[calls[s].dashboard_ws]) :
              LET m == outbox[calls[s].dashboard_ws][i] IN
              /\ m.src = "v1" /\ m.sid = s
              /\ m.body = [type |-> "vitals", call_id |-> "X", hr |-> "118", breathing |-> "22"]

\* C12 as claimed: every vitals message put on a dashboard channel, by the
\* live forward or by the replay on join, has type "vitals" and the call id
\* the vitals connection (or the dispatcher_joined) names, whatever fields the
\* reading itself carries.
C12_Annotated ==
    [][/\ \A v \in VitalsConns : \A s \in Sessions :
             VitalsFor(v, s) /\ Open(calls[s].dashboard_ws)
             => LET dws == calls[s].dashboard_ws
                    m   == outbox'[dws][Len(outbox'[dws])]
                IN m.body.type = "vitals" /\ m.body.call_id = query[v].call_id
       /\ \A d \in DashConns :
             JoinsExisting(d) /\ Truthy(calls[ActiveGet(data'[d].call_id)].last_vitals)
             => LET m == outbox'[d][Len(outbox'[d])]
                IN m.body.type = "vitals" /\ m.body.call_id = data'[d].call_id]_vars

\* ------------------------------------------------------ inference errors
InferenceError == [kind |-> "error", summary |-> ""]

\* C13: when the inference call of a round raises, the task goes back to
\* collecting (it does not end) and, if the dashboard channel its getter finds
\* is open, that channel gets a triage_update for the call with severity 0, no
\* keywords and a non-empty summary.
C13_DegradedReport ==
    [][\A t \in Tasks :
          TaskInfer(t, InferenceError)
          => LET dws == DashboardWsGetter(tasks[t].call_id)
                 m   == outbox'[dws][Len(outbox[dws]) + 1]
             IN /\ tasks'[t].pc = "collect"
                /\ Open(dws)
                   => /\ Len(outbox'[dws]) = Len(outbox[dws]) + 1
                      /\ m.body.type = "triage_update"
                      /\ m.body.call_id = tasks[t].call_id
                      /\ m.body.severity = "0"
                      /\ m.body.detected_keywords = ""
                      /\ m.body.situation_summary # ""]_vars

\* the dashboard got a placeholder and, from a later round of the same task,
\* another triage_update
C13_Witness ==
    \E i, j \in 1..Len(outbox["d1"]) :
        /\ i < j
        /\ outbox["d1"][i].src = "task" /\ outbox["d1"][i].body.severity = "0"
        /\ outbox["d1"][j].src = "task" /\ outbox["d1"][j].sid = outbox["d1"][i].sid

\* ================================================================ relay
\* Caller s1 of call X, a signaling connection s2 with role=dispatcher for X,
\* dashboard d1, one vitals reading and one media payload for X; s1 and d1 may
\* close.
QueryRelay ==
    [ch \in Conns |-> [call_id |-> "X", role |-> IF ch = "s2" THEN "dispatcher" ELSE "caller"]]

RelaySignalMsgs ==
    {[type |-> "call_initiated", location |-> "L1"], [type |-> "offer", sdp |-> "o1"]}

RelayDashMsgs ==
    {[type |-> "dispatcher_joined", call_id |-> "X"],
     [type |-> "answer", call_id |-> "X"],
     [type |-> "answer", call_id |-> "Y"]}

RelayBudget ==
    [ch \in Conns |-> IF ch \in {"s1", "d1"} THEN MaxMsgs
                      ELSE IF ch \in {"s2", "v1", "a1"} THEN 1 ELSE 0]

InitRelay == InitWith(QueryRelay, RelayBudget, {}, {TRUE})

NextRelay ==
    \/ \E msg \in RelaySignalMsgs : SignalRecv("s1", msg)
    \/ SignalRecv("s2", [type |-> "ice", candidate |-> "c1"])
    \/ SignalBroadcast("s1")
    \/ SignalClose("s1")
    \/ SignalFinish("s1")
    \/ CleanupWait("s1")
    \/ CleanupCaller("s1")
    \/ DashConnect("d1")
    \/ \E msg \in RelayDashMsgs : DashRecv("d1", msg)
    \/ DashReady("d1")
    \/ DashClose("d1")
    \/ DashFinish("d1")
    \/ VitalsRecv("v1", [hr |-> "118", breathing |-> "22"])
    \/ AudioRecv("a1", [kind |-> "binary", type |-> "", data |-> "pcm1"])
    \/ \E t \in Tasks : TaskStart(t) \/ TaskCancelled(t)

SpecRelay == InitRelay /\ [][NextRelay]_vars

\* the outboxes after a message body from ch for session s is forwarded to
\* target, or dropped
Forwarded(ch, s, target, body) ==
    IF s # 0 /\ target # NoneWs /\ ~closed[target]
    THEN outbox' = [outbox EXCEPT ![target] = Append(@, [body |-> body, sid |-> s, src |-> ch])]
    ELSE outbox' = outbox

\* C14: a signaling message that is neither call_initiated nor call_ended
\* goes, unchanged, to the session's dashboard channel when the sender's role
\* is caller and to its caller channel otherwise (always to the caller channel
\* when it comes from a dashboard), and to no other channel; with no session
\* for the call id, or with that channel absent or closed, nothing is sent; in
\* every case the registry, the sessions, the tasks and the caches stay as
\* they are and the handler goes on receiving.
C14_Forwarded ==
    [][/\ \A ch \in SignalConns :
             budget'[ch] = budget[ch] - 1
             /\ data'[ch].type \notin {"call_initiated", "call_ended"}
             => LET s == ActiveGet(query[ch].call_id)
                    target == IF s = 0 THEN NoneWs
                              ELSE IF query[ch].role = "caller" THEN calls[s].dashboard_ws
                              ELSE calls[s].caller_ws
                IN /\ Forwarded(ch, s, target, data'[ch])
                   /\ pc'[ch] = "recv"
                   /\ UNCHANGED << active_calls, calls, tasks, pending_vitals,
                                   dispatcher_connections, closed >>
       /\ \A d \in DashConns :
             budget'[d] = budget[d] - 1
             /\ data'[d].type \notin {"dispatcher_joined", "call_ended"}
             => LET s == ActiveGet(data'[d].call_id)
                    target == IF s = 0 THEN NoneWs ELSE calls[s].caller_ws
                IN /\ Forwarded(d, s, target, data'[d])
                   /\ pc'[d] = "recv"
                   /\ UNCHANGED << active_calls, calls, tasks, pending_vitals,
                                   dispatcher_connections, closed >>]_vars

\* the dashboard holds the caller's offer; the caller holds the answer of the
\* dashboard and the candidate of the dispatcher-role connection
C14_Witness ==
    /\ \E i \in 1..Len(outbox["d1"]) :
          outbox["d1"][i].body = [type |-> "offer", sdp |-> "o1"] /\ outbox["d1"][i].src = "s1"
    /\ \E i \in 1..Len(outbox["s1"]) :
          outbox["s1"][i].body = [type |-> "answer", call_id |-> "X"] /\ outbox["s1"][i].src = "d1"
    /\ \E i \in 1..Len(outbox["s1"]) :
          outbox["s1"][i].body = [type |-> "ice", candidate |-> "c1"] /\ outbox["s1"][i].src = "s2"

\* C15: a session that no dispatcher has joined has no task handle and no
\* task reads its queue, whatever it has received otherwise.
C15_NoTaskBeforeJoin ==
    \A s \in Sessions :
        calls[s].dashboard_ws = NoneWs
        => /\ calls[s].gemini_task = 0
           /\ \A t \in Tasks : tasks[t].queue # s

\* an unjoined session that has taken a media payload, a vitals reading and a
\* forwarded-or-dropped offer, still without a task
C15_Witness ==
    \E s \in Sessions :
        /\ calls[s].dashboard_ws = NoneWs
        /\ calls[s].audio_queue # << >>
        /\ Truthy(calls[s].last_vitals)
        /\ Get(data["s1"], "type", "") = "offer"
        /\ calls[s].gemini_task = 0

\* =========================================================== dashboards
\* Dashboards d1 and d2 connect, join call X of caller s1, send a text that is
\* not a JSON object, close.
DashboardsBudget ==
    [ch \in Conns |-> IF ch = "d1" THEN MaxMsgs ELSE IF ch \in {"d2", "s1"} THEN 1 ELSE 0]

InitDashboards == InitWith(QueryAll, DashboardsBudget, {}, {TRUE})

NextDashboards ==
    \/ SignalRecv("s1", [type |-> "call_initiated", location |-> "L1"])
    \/ SignalBroadcast("s1")
    \/ \E d \in DashConns :
          \/ DashConnect(d)
          \/ DashRecv(d, [type |-> "dispatcher_joined", call_id |-> "X"])
          \/ DashError(d)
          \/ DashClose(d)
          \/ DashFinish(d)
    \/ \E t \in Tasks : TaskStart(t)

SpecDashboards == InitDashboards /\ [][NextDashboards]_vars

\* C16 as claimed: the broadcast set holds no dashboard that has not connected
\* yet, every dashboard whose handler is running, and no dashboard whose
\* handler has ended, by disconnection or by an error.
C16_ExactlyConnected ==
    \A d \in DashConns :
        /\ pc[d] \in {"off", "idle"} => d \notin dispatcher_connections
        /\ pc[d] \in {"recv", "dj_ready", "cl_put", "cl_wait", "cl_caller", "closing"}
           => d \in dispatcher_connections
        /\ pc[d] \in {"done", "failed"} => d \notin dispatcher_connections

\* =============================================================== frames
\* The media connection a1 of call X sends binary payloads, frame messages
\* with and without a data field, and other JSON; caller s1 creates the
\* session, dashboard d1 joins it, the task takes items off the queue.
FramesBudget ==
    [ch \in Conns |-> IF ch = "a1" THEN MaxMsgs + 1 ELSE IF ch \in {"s1", "d1"} THEN 1 ELSE 0]

InitFrames == InitWith(QueryAll, FramesBudget, {}, {TRUE})

NextFrames ==
    \/ SignalRecv("s1", [type |-> "call_initiated", location |-> "L1"])
    \/ SignalBroadcast("s1")
    \/ DashConnect("d1")
    \/ DashRecv("d1", [type |-> "dispatcher_joined", call_id |-> "X"])
    \/ \E m \in MediaInputs : AudioRecv("a1", m)
    \/ AudioError("a1")
    \/ AudioPut("a1")
    \/ \E t \in Tasks : TaskStart(t) \/ TaskGet(t)

SpecFrames == InitFrames /\ [][NextFrames]_vars

\* the item it is now at the tail of the queue of s, or in the hands of the
\* producer a that waits for room
Enqueued(a, s, it) ==
    \/ calls'[s].audio_queue = Append(QueueOf(s), it)
    \/ calls'[s].audio_queue = QueueOf(s) /\ pc'[a] = "put_wait" /\ item'[a] = << it >>

\* C17 as claimed: for a call id with a session, a binary payload is enqueued
\* as an audio item and a frame message as a frame item, at the tail; any
\* other message, and any message for a call id without a session, leaves
\* every queue as it is; a queue changes only by an item joining at the tail
\* or the head being taken.
C17_MediaEnqueued ==
    [][/\ \A a \in AudioConns :
             budget'[a] = budget[a] - 1
             => LET s == ActiveGet(query[a].call_id)
                    m == data'[a]
                IN IF s # 0 /\ m.kind = "binary"
                   THEN Enqueued(a, s, [type |-> "audio", data |-> m.data])
                   ELSE IF s # 0 /\ m.kind = "text" /\ m.type = "frame"
                   THEN Enqueued(a, s, [type |-> "frame", data |-> Get(m, "data", "")])
                   ELSE calls' = calls /\ item' = item
       /\ \A s \in Sessions :
             \/ calls'[s].audio_queue = QueueOf(s)
             \/ /\ Len(calls'[s].audio_queue) = Len(QueueOf(s)) + 1
                /\ SubSeq(calls'[s].audio_queue, 1, Len(QueueOf(s))) = QueueOf(s)
             \/ QueueOf(s) # << >> /\ calls'[s].audio_queue = Tail(QueueOf(s))]_vars

\* =============================================================== wedged
\* The media scenario under the event loop's scheduling: a coroutine that can
\* resume does resume (a send of the broadcast, the sentinel put, the wait for
\* the task, the sends of cleanup, a waiting media put, the task's start, get, window timeout and
\* cancellation).  Nothing makes a client send or the inference call return.
MediaProgress ==
    \/ SignalBroadcast("s1")
    \/ CleanupPut("d1")
    \/ CleanupWait("d1")
    \/ CleanupCaller("d1")
    \/ AudioPut("a1")
    \/ \E t \in Tasks : TaskStart(t) \/ TaskGet(t) \/ TaskWindow(t) \/ TaskCancelled(t)

SpecWedged == InitMedia /\ [][NextMedia]_vars /\ WF_vars(MediaProgress)

\* cleanup of the (one) session has taken it out of the registry
CleanupBegun == Len(calls) = 1 /\ active_calls["X"] = 0

\* the open dashboard and the open caller channel of the session have their
\* call_ended
BothNotified ==
    /\ Len(calls) = 1
    /\ Open(calls[1].dashboard_ws) => Count(calls[1].dashboard_ws, "call_ended", 1) = 1
    /\ Open(calls[1].caller_ws) => Count(calls[1].caller_ws, "call_ended", 1) = 1

\* C18 as claimed: once cleanup has begun, the call_ended notifications to the
\* open dashboard and caller channels are eventually sent, also when the
\* inference call never returns or the queue is full when the sentinel is put.
C18_CleanupCompletes == CleanupBegun ~> BothNotified

\* ------------------------------------------------- registry and cleanup
\* the handlers that stand at an await inside cleanup_call
InCleanup == {ch \in Conns : pc[ch] \in {"cl_put", "cl_wait", "cl_caller"}}

\* the handler of ch calls cleanup_call(cid)
CallsCleanup(ch, cid) ==
    \/ ch \in SignalConns /\ cid = query[ch].call_id
       /\ (Takes(ch, "call_ended") \/ (pc[ch] = "closing" /\ pc'[ch] # "closing"))
    \/ ch \in DashConns /\ Takes(ch, "call_ended") /\ cid = Get(data'[ch], "call_id", "None")

\* C19 as claimed: while a cleanup of a session of a call id stands at one of
\* its awaits, the registry has no session for that id.
C19_NoSessionDuringCleanup ==
    \A ch \in InCleanup : active_calls[calls[ref[ch]].call_id] = 0

\* C19 as amended: cleanup takes the session out of the registry in its first
\* step; while it stands at its awaits the registry does not hold that
\* session; a registry entry only ever changes from a session to none or from
\* none to a session created in that step, so an ended session is never in the
\* registry again, though a new one for the same id may be.
C19_EndedNeverRegistered ==
    /\ [](\A ch \in InCleanup : active_calls[calls[ref[ch]].call_id] # ref[ch])
    /\ [][/\ \A ch \in SignalConns \cup DashConns : \A cid \in CallIds :
                CallsCleanup(ch, cid) => active_calls'[cid] = 0
          /\ \A cid \in CallIds :
                active_calls'[cid] # active_calls[cid]
                => \/ active_calls'[cid] = 0
                   \/ /\ active_calls[cid] = 0
                      /\ active_calls'[cid] = Len(calls) + 1
                      /\ Len(calls') = Len(calls) + 1]_vars

\* the dashboard's cleanup of the first session of X waits for the task while
\* the registry already holds a second session of X
C19_Witness ==
    /\ pc["d1"] = "cl_wait"
    /\ ref["d1"] = 1
    /\ calls[1].call_id = "X"
    /\ active_calls["X"] = 2

\* --------------------------------------------- call_ended after the task
\* C20: call_ended for a session is put on its dashboard channel only when the
\* session has no task or its task has finished, and on no dashboard channel
\* does a triage_update of a session follow the call_ended of that session.
C20_EndedAfterTask ==
    /\ [](\A d \in DashConns : \A i, j \in 1..Len(outbox[d]) :
             i < j /\ outbox[d][i].sid = outbox[d][j].sid
             => ~(outbox[d][i].body.type = "call_ended" /\ outbox[d][j].body.type = "triage_update"))
    /\ [][\A s \in Sessions : \A d \in DashConns :
             calls[s].dashboard_ws = d
             /\ CountIn(outbox', d, "call_ended", s) > CountIn(outbox, d, "call_ended", s)
             => ~TaskRunning(calls[s].gemini_task)]_vars

\* the dashboard got a triage_update and then the call_ended of the session,
\* whose task was running when cleanup began and has been cancelled
C20_Witness ==
    /\ Len(tasks) = 1 /\ tasks[1].cancel /\ tasks[1].pc = "done"
    /\ \E i, j \in 1..Len(outbox["d1"]) :
          /\ i < j
          /\ outbox["d1"][i].body.type = "triage_update" /\ outbox["d1"][i].sid = tasks[1].queue
          /\ outbox["d1"][j].body.type = "call_ended" /\ outbox["d1"][j].sid = tasks[1].queue

\* ------------------------------------------------------------- sentinel
\* how many sentinels the queue of session s holds
Sentinels(q) == Cardinality({i \in 1..Len(q) : q[i] = Sentinel})

\* C21: a queue gets a sentinel only in a step of cleanup_call for its
\* session (the step that leaves the handler waiting for the task), only when
\* it holds none, and only when the session has a task that is still running;
\* a task is marked cancelled only in such a step; a session without a task
\* never has a sentinel in its queue, and no queue ever has two.
C21_SentinelOnce ==
    /\ [](\A s \in Sessions :
             /\ Sentinels(QueueOf(s)) <= 1
             /\ calls[s].gemini_task = 0 => Sentinels(QueueOf(s)) = 0)
    /\ [][/\ \A s \in Sessions :
                Sentinels(calls'[s].audio_queue) > Sentinels(QueueOf(s))
                => /\ Sentinels(QueueOf(s)) = 0
                   /\ calls'[s].audio_queue = Append(QueueOf(s), Sentinel)
                   /\ TaskRunning(calls[s].gemini_task)
                   /\ active_calls'[calls[s].call_id] # s
                   /\ \E ch \in SignalConns \cup DashConns :
                         pc[ch] # "cl_wait" /\ pc'[ch] = "cl_wait" /\ ref'[ch] = s
          /\ \A t \in Tasks :
                tasks'[t].cancel /\ ~tasks[t].cancel
                => /\ TaskRunning(t)
                   /\ calls'[tasks[t].queue].audio_queue
                         = Append(QueueOf(tasks[t].queue), Sentinel)]_vars

\* a session ended while its task was running: its queue, now at capacity,
\* holds the one sentinel, and the task is marked cancelled
C21_Witness ==
    \E s \in Sessions :
        /\ Sentinels(QueueOf(s)) = 1
        /\ Len(QueueOf(s)) = QueueMaxSize
        /\ tasks[calls[s].gemini_task].cancel
        /\ active_calls[calls[s].call_id] = 0

\* ============================================================== publish
\* The media scenario with and without GEMINI_API_KEY, and with publishes
\* that fail.
InitPublish == InitWith(QueryAll, MediaBudget, {}, BOOLEAN)

NextPublish ==
    \/ NextMedia
    \/ \E t \in Tasks : TaskPublishFails(t)

SpecPublish == InitPublish /\ [][NextPublish]_vars

\* C22 as claimed: a task ends only by taking the sentinel off its queue or
\* after cleanup has cancelled it.
C22_EndsBySentinelOrCancel ==
    [][\A t \in Tasks :
          tasks[t].pc # "done" /\ tasks'[t].pc = "done"
          => \/ tasks[t].cancel
             \/ /\ tasks[t].pc = "collect"
                /\ QueueOf(tasks[t].queue) # << >>
                /\ Head(QueueOf(tasks[t].queue)) = Sentinel]_vars

\* ------------------------------------------------- the queue after Ended
\* session s has been taken out of the registry
Ended(s) == \A cid \in CallIds : active_calls[cid] # s

\* how many audio and frame items a queue holds
MediaItems(q) == Cardinality({i \in 1..Len(q) : q[i].type \in {"audio", "frame"}})

\* C23 as claimed: once the cleanup of a session has returned its queue holds
\* no audio or frame item, and from the moment the session has left the
\* registry no audio or frame item is added to its queue.
C23_DrainedAfterEnded ==
    /\ [](\A s \in Sessions :
             Ended(s) /\ (\A ch \in InCleanup : ref[ch] # s) => MediaItems(QueueOf(s)) = 0)
    /\ [][\A s \in Sessions :
             Ended(s) => MediaItems(calls'[s].audio_queue) <= MediaItems(QueueOf(s))]_vars

\* ------------------------------------------------- cancellation of the task
\* the messages the task of session s has published, over all channels
Published(box, s) ==
    [c \in Conns |-> SelectSeq(box[c], LAMBDA e : e.src = "task" /\ e.sid = s)]

\* C24: from the moment a task is cancelled, the only thing that happens to it
\* is that it ends, wherever it was waiting (for the queue, for the inference
\* response): it takes no further item, starts no further round and publishes
\* no triage_update, degraded or not.
C24_CancellationPropagated ==
    [][\A t \in Tasks :
          tasks[t].cancel =>
              /\ tasks'[t] \in {tasks[t], [tasks[t] EXCEPT !.pc = "done"]}
              /\ Published(outbox', tasks[t].queue) = Published(outbox, tasks[t].queue)]_vars

\* the cancellation has reached a task that waits for the inference response
C24_Witness ==
    \E t \in Tasks : tasks[t].cancel /\ tasks[t].pc = "infer"

\* ================================================================ order
\* Caller s1 creates call X and sends signaling messages, dashboard d1 joins
\* X and sends its own, the dispatcher-role connection s2 sends candidates.
\* Every relayed message carries in `seq` its position in the stream of the
\* connection it arrives on.
OrderBudget ==
    [ch \in Conns |-> IF ch \in {"s1", "d1"} THEN MaxMsgs + 1
                      ELSE IF ch = "s2" THEN MaxMsgs ELSE 0]

\* how many messages ch has sent so far
Position(ch) == OrderBudget[ch] - budget[ch]

InitOrder == InitWith(QueryRelay, OrderBudget, {}, {TRUE})

NextOrder ==
    \/ SignalRecv("s1", [type |-> "call_initiated", location |-> "L1"])
    \/ SignalBroadcast("s1")
    \/ \E ty \in {"offer", "ice"} : SignalRecv("s1", [type |-> ty, seq |-> Position("s1")])
    \/ SignalRecv("s2", [type |-> "ice", seq |-> Position("s2")])
    \/ DashConnect("d1")
    \/ DashRecv("d1", [type |-> "dispatcher_joined", call_id |-> "X"])
    \/ DashRecv("d1", [type |-> "answer", call_id |-> "X", seq |-> Position("d1")])

SpecOrder == InitOrder /\ [][NextOrder]_vars

\* the relayed messages from src in the outbox of a target, oldest first
RelayedFrom(c, src) ==
    SelectSeq(outbox[c], LAMBDA e : e.src = src /\ "seq" \in DOMAIN e.body)

\* C25: on every target channel, the relayed messages of one source stand in
\* the order in which that source sent them; and an outbox only ever grows at
\* its tail, so what was delivered first stays first.
C25_RelayOrder ==
    /\ [](\A c \in Conns : \A src \in Conns :
             LET r == RelayedFrom(c, src) IN
             \A i \in 1..Len(r) : \A j \in 1..Len(r) :
                 i < j => r[i].body.seq < r[j].body.seq)
    /\ [][\A c \in Conns :
             /\ Len(outbox'[c]) >= Len(outbox[c])
             /\ SubSeq(outbox'[c], 1, Len(outbox[c])) = outbox[c]]_vars

\* the dashboard holds two messages of the caller, and the caller two of the
\* dashboard and two of the dispatcher-role connection
C25_Witness ==
    /\ Len(RelayedFrom("d1", "s1")) >= 2
    /\ Len(RelayedFrom("s1", "d1")) >= 2
    /\ Len(RelayedFrom("s1", "s2")) >= 2

\* ================================================================ window
\* The media scenario with payloads that can be told apart: the n-th message
\* of the media connection is audio payload Pcm[n] or a frame.
Pcm == << "pcm1", "pcm2", "pcm3", "pcm4", "pcm5" >>

\* the payloads the media connection can send next
WindowInputs ==
    LET n == MediaBudget["a1"] - budget["a1"] + 1 IN
    { [kind |-> "binary", type |-> "",      data |-> Pcm[n]],
      [kind |-> "text",   type |-> "frame", data |-> "jpg1"] }

NextWindow ==
    \/ SignalRecv("s1", [type |-> "call_initiated", location |-> "L1"])
    \/ SignalBroadcast("s1")
    \/ DashConnect("d1")
    \/ DashRecv("d1", [type |-> "dispatcher_joined", call_id |-> "X"])
    \/ DashRecv("d1", [type |-> "call_ended", call_id |-> "X"])
    \/ CleanupPut("d1")
    \/ CleanupWait("d1")
    \/ CleanupCaller("d1")
    \/ \E m \in WindowInputs : AudioRecv("a1", m)
    \/ AudioPut("a1")
    \/ \E t \in Tasks :
          \/ TaskStart(t)
          \/ TaskGet(t)
          \/ TaskWindow(t)
          \/ \E r \in MediaResponses : TaskInfer(t, r)
          \/ TaskCancelled(t)

SpecWindow == InitMedia /\ [][NextWindow]_vars

\* the payloads of a sequence of chunks, one after the other
RECURSIVE Flatten(_)
Flatten(chunks) ==
    IF chunks = << >> THEN << >> ELSE Head(chunks) \o Flatten(Tail(chunks))

\* C26 as claimed: every audio payload the task has dequeued is part of
\* exactly one request: when the task has ended, the requests it submitted,
\* put end to end, are the payloads it dequeued.
C26_EveryItemSubmitted ==
    \A t \in Tasks : tasks[t].pc = "done" => Flatten(tasks[t].requests) = tasks[t].taken

\* C26 (amended): a request is submitted only at the close of a window with a
\* non-empty buffer and is never empty; an audio payload taken from the head
\* of the queue is appended to the buffer; the requests submitted so far
\* followed by the buffer are exactly the payloads dequeued, in arrival order,
\* so a payload is part of at most one request, and of exactly one as soon as
\* a window has closed after it.  Payloads still in the buffer when the task
\* ends are part of none.
C26_WindowedBatch ==
    /\ [](\A t \in Tasks :
             /\ Flatten(tasks[t].requests) \o tasks[t].audio_buffer = tasks[t].taken
             /\ \A i \in 1..Len(tasks[t].requests) : tasks[t].requests[i] # << >>)
    /\ [][\A t \in Tasks :
             LET q == QueueOf(tasks[t].queue) IN
             /\ tasks'[t].requests # tasks[t].requests
                => /\ tasks[t].pc = "collect" /\ tasks'[t].pc = "infer"
                   /\ tasks[t].audio_buffer # << >>
                   /\ tasks'[t].requests = Append(tasks[t].requests, tasks[t].audio_buffer)
                   /\ tasks'[t].audio_buffer = << >>
             /\ q # << >> /\ calls'[tasks[t].queue].audio_queue = Tail(q)
                /\ Head(q).type = "audio"
                => tasks'[t].taken = Append(tasks[t].taken, Head(q).data)
             /\ tasks'[t].taken # tasks[t].taken
                => /\ q # << >> /\ Head(q).type = "audio"
                   /\ calls'[tasks[t].queue].audio_queue = Tail(q)]_vars

\* a request with two payloads collected over one window has been submitted,
\* and the task has ended with the third payload still in its buffer
C26_Witness ==
    \E t \in Tasks :
        /\ tasks[t].requests = << << "pcm1", "pcm2" >> >>
        /\ tasks[t].audio_buffer = << "pcm3" >>
        /\ tasks[t].pc = "done"

\* ================================================================ reuse
\* The media scenario, where caller s1 can send call_initiated a second time
\* and a second dashboard d2 can join call X.
ReuseBudget ==
    [ch \in Conns |-> IF ch = "a1" THEN QueueMaxSize + 1
                      ELSE IF ch \in {"s1", "d1"} THEN 2
                      ELSE IF ch = "d2" THEN 1 ELSE 0]

InitReuse == InitWith(QueryAll, ReuseBudget, {}, {TRUE})

NextReuse ==
    \/ NextMedia
    \/ DashConnect("d2")
    \/ DashRecv("d2", [type |-> "dispatcher_joined", call_id |-> "X"])

SpecReuse == InitReuse /\ [][NextReuse]_vars

\* C27 as claimed: whatever a task publishes goes to the dashboard channel
\* of the session whose queue the task reads, and to no other channel.
C27_PublishesToOwnDashboard ==
    [][\A t \in Tasks : \A c \in Conns :
          Published(outbox', tasks[t].queue)[c] # Published(outbox, tasks[t].queue)[c]
          => c = calls[tasks[t].queue].dashboard_ws]_vars

\* ------------------------------------------------- who ends a session by closing
\* C28 as claimed: when the code after the receive loop of a closed signaling
\* connection takes a session out of the registry, that connection is the
\* session's caller channel; the closure of any other connection with the
\* same call id leaves the registry as it is.
C28_OnlyOwnCallerEnds ==
    [][\A ch \in SignalConns :
          pc[ch] = "closing" /\ pc'[ch] # "closing"
          => \A cid \in CallIds :
                active_calls'[cid] # active_calls[cid]
                => calls[active_calls[cid]].caller_ws = ch]_vars

\* ------------------------------------------------- dispatcher_ready after the end
\* C29 as claimed: no channel is sent dispatcher_ready for a session after
\* it was sent call_ended for that session.
C29_NoReadyAfterEnded ==
    \A ch \in Conns :
        \A i \in 1..Len(outbox[ch]) : \A j \in 1..Len(outbox[ch]) :
            /\ i < j
            /\ outbox[ch][i].body.type = "call_ended"
            /\ outbox[ch][j].body.type = "dispatcher_ready"
            => outbox[ch][i].sid # outbox[ch][j].sid

====
